---- MODULE Spec2Model ----
(***************************************************************************)
(* State-machine model of src/telegram_bot.py: the per-user conversation   *)
(* state kept in context.user_data, the bot's button messages in the chat, *)
(* and the SQLite tables cache, links and custom_categories.               *)
(*                                                                         *)
(* Strings are sequences of symbols.  A symbol stands for a block of       *)
(* characters without whitespace or '|' inside: "H" is the scheme prefix   *)
(* "http://", "W" is "www.", "L" is a 50-byte path, " " is one whitespace  *)
(* character, "|" is the pipe, every other symbol is the word it spells.   *)
(* python-telegram-bot processes updates one at a time (the Application is *)
(* built without concurrent_updates), so each handler is one atomic step.  *)
(***************************************************************************)
EXTENDS Integers, Sequences, FiniteSets, TLC

\* ------------------------------------------------------------ bounds ----
\* Number of updates (messages, commands, button presses) processed.
MaxSteps == 4

Users == {1, 2}

\* Message texts the users send.
Texts ==
  { <<"H", "a">>,                 \* "http://a"
    <<"N", " ", "H", "a">>,       \* "N http://a": the URL inside other text
    <<"H", "a", "|", "b">>,       \* "http://a|b": URL_REGEX admits the pipe
    <<"H", "L">>,                 \* a URL too long for callback_data
    <<" ", "N", " ">>,            \* a word with surrounding whitespace
    <<"News">>,                   \* the name of a default category
    <<" ">> }                     \* whitespace only

\* The second user sends fewer texts.
TextsOf(u) == IF u = 1 THEN Texts ELSE {<<"H", "a">>, <<"News">>}

\* The default categories whose buttons the users press (the picker offers
\* all of default_categories, and every custom button is pressed).
PressedDefaults == {<<"News">>, <<"Sport">>}

\* The colour buttons the users press (the picker offers all of colors).
PressedColors == {<<"red">>, <<"gray">>}

\* ------------------------------------------------------ string helpers --
\* Python's None.  No text contains this symbol.
None == <<"<None>">>

\* Truth value of a Python str-or-None: None and "" are falsy.
Truthy(s) == s # None /\ s # <<>>

\* len(sym.encode('utf-8')) of the block of characters a symbol stands for.
SymLen(sym) ==
  CASE sym = "H" -> 7
    [] sym = "W" -> 4
    [] sym = "L" -> 50
    [] sym \in {"a", "b", "N", "|", " "} -> 1
    [] sym \in {"red", "Fun"} -> 3
    [] sym \in {"blue", "pink", "gray", "News", "Tech"} -> 4
    [] sym \in {"green", "color", "Sport", "Music"} -> 5
    [] sym \in {"yellow", "purple", "indigo", "assign"} -> 6
    [] sym = "add_category" -> 12
    [] OTHER -> 1

RECURSIVE StrLen(_)
StrLen(s) == IF s = <<>> THEN 0 ELSE SymLen(Head(s)) + StrLen(Tail(s))

IsSpace(c) == c = " "

RECURSIVE lstrip(_)
lstrip(s) == IF s # <<>> /\ IsSpace(Head(s)) THEN lstrip(Tail(s)) ELSE s

RECURSIVE rstrip(_)
rstrip(s) ==
  IF s # <<>> /\ IsSpace(s[Len(s)]) THEN rstrip(SubSeq(s, 1, Len(s) - 1)) ELSE s

\* str.strip()
\* text without str.strip
strip_nothing(s) == s

strip(s) == rstrip(lstrip(s))

\* str.split('|'): the pieces between the pipes, empty pieces included.
RECURSIVE split(_)
split(s) ==
  LET pipes == {i \in 1..Len(s) : s[i] = "|"} IN
  IF pipes = {} THEN <<s>>
  ELSE LET i == CHOOSE j \in pipes : \A k \in pipes : j <= k
       IN <<SubSeq(s, 1, i - 1)>> \o split(SubSeq(s, i + 1, Len(s)))

\* URL_REGEX = r'https?://[^\s<>"]+|www\.[^\s<>"]+'
UrlPrefix == {"H", "W"}
UrlChar(c) == c \notin {" ", "<", ">", "\""}

\* Positions where URL_REGEX matches: a prefix followed by at least one
\* character of the class [^\s<>"].
UrlStarts(t) ==
  {i \in 1..(Len(t) - 1) : t[i] \in UrlPrefix /\ UrlChar(t[i + 1])}

\* End of the greedy match that starts at i.
UrlEnd(t, i) ==
  CHOOSE j \in (i + 1)..Len(t) :
    /\ \A k \in (i + 1)..j : UrlChar(t[k])
    /\ (j = Len(t) \/ ~UrlChar(t[j + 1]))

\* re.findall(URL_REGEX, text)[0], or None when findall returns [].
FirstUrl(t) ==
  IF UrlStarts(t) = {} THEN None
  ELSE LET i == CHOOSE j \in UrlStarts(t) : \A k \in UrlStarts(t) : j <= k
       IN SubSeq(t, i, UrlEnd(t, i))

\* ------------------------------------------------------------- state ----
VARIABLES
  user_data,          \* context.user_data of every user
  chat,               \* the bot's button messages still present in each chat
  cache,              \* table cache: fetched page content per (user_id, url)
  links,              \* table links, in timestamp order
  custom_categories,  \* table custom_categories, in timestamp order
  last,               \* the update handled last and what the bot replied
  steps,              \* number of updates handled
  requested,          \* history: the (user, url) pairs submitted or assigned
  scen,               \* history: each user's progress through the scenario
                      \* url, '+' press, name, colour press
  input,              \* history: the update handled last, as the user sent it
  store_down,         \* the tables whose statements raise sqlite3 errors
  running             \* the handle_url calls suspended in their fetch

vars ==
  <<user_data, chat, cache, links, custom_categories, last, steps, requested,
    scen, input, store_down, running>>

\* colors of handle_message
colors ==
  << <<"red">>, <<"blue">>, <<"green">>, <<"yellow">>,
     <<"purple">>, <<"pink">>, <<"indigo">>, <<"gray">> >>

\* default_categories of handle_url and handle_callback, in dict order
default_categories ==
  << << <<"News">>, <<"blue">> >>, << <<"Tech">>, <<"green">> >>,
     << <<"Fun">>, <<"yellow">> >>, << <<"Sport">>, <<"red">> >>,
     << <<"Music">>, <<"purple">> >> >>

\* Telegram's limit on callback_data, in bytes
CALLBACK_DATA_MAX == 64

\* What fetch_website_content returns: the page, or an "Error: ..." string.
FetchOutcomes == {"html", "Error"}

\* A user_data dict with no key set.  category_add_mode is read with
\* .get(..., False), so an absent key and False are the same; a message key
\* holds the id of the message, 0 when the key is absent.
EmptyUserData ==
  [ last_url_message |-> 0,
    category_color_message |-> 0,
    category_add_mode |-> FALSE,
    category_add_trigger |-> None,
    current_url |-> None,
    new_category |-> None ]

NoReply(u, ev) ==
  [user |-> u, event |-> ev, arg |-> None, reply |-> "none",
   fetched |-> FALSE, url |-> None, offered |-> <<>>]

NoScenario == [stage |-> 0, url |-> None, name |-> None, color |-> None]

\* An update as the user sent it: the text of a message or the command, or
\* the button pressed (the url its picker was sent for, and the category and
\* colour it shows).
NoInput ==
  [kind |-> "none", text |-> None, url |-> None, category |-> None,
   color |-> None, suspended |-> FALSE]

Tables == {"cache", "links", "custom_categories"}

Init ==
  /\ user_data = [u \in Users |-> EmptyUserData]
  /\ chat = [u \in Users |-> {}]
  /\ cache = {}
  /\ links = <<>>
  /\ custom_categories = <<>>
  /\ last = NoReply(0, "init")
  /\ steps = 0
  /\ requested = {}
  /\ scen = [u \in Users |-> NoScenario]
  /\ input = NoInput
  /\ store_down = {}
  /\ running = {}

\* ------------------------------------------------------------ tables ----
\* Every table function catches the exception of a failing statement, prints
\* it and returns: a failed write leaves the table as it is, a failed read
\* returns the empty result.

\* load_cache: the urls the cache table holds for the user
\* (an exception is caught and {} returned)
load_cache(tbl, u) ==
  IF "cache" \in store_down THEN {}
  ELSE {r.url : r \in {x \in tbl : x.user_id = u}}

\* save_cache: INSERT OR REPLACE INTO cache, PRIMARY KEY (user_id, url)
save_cache(tbl, u, url, html_content) ==
  IF "cache" \in store_down THEN tbl
  ELSE {r \in tbl : ~(r.user_id = u /\ r.url = url)}
         \cup {[user_id |-> u, url |-> url, html_content |-> html_content]}

\* A plain INSERT: the row of the same key is kept.
save_link_insert_only(tbl, u, url, category, color) ==
  Append(tbl, [user_id |-> u, url |-> url, category |-> category, color |-> color])

\* save_link: INSERT OR REPLACE INTO links, PRIMARY KEY (user_id, url); the
\* new row carries the latest timestamp.
\* save_link with the row sought by its url alone
save_link_of_any_user(tbl, u, url, category, color) ==
  IF "links" \in store_down THEN tbl
  ELSE SelectSeq(tbl, LAMBDA r : r.url # url)
         \o <<[user_id |-> u, url |-> url, category |-> category,
               color |-> color]>>

save_link(tbl, u, url, category, color) ==
  IF "links" \in store_down THEN tbl
  ELSE SelectSeq(tbl, LAMBDA r : ~(r.user_id = u /\ r.url = url))
         \o <<[user_id |-> u, url |-> url, category |-> category,
               color |-> color]>>

\* save_custom_category: INSERT OR REPLACE INTO custom_categories,
\* PRIMARY KEY (user_id, category)
\* save_custom_category as a plain INSERT
save_custom_category_insert_only(tbl, u, category, color) ==
  IF "custom_categories" \in store_down THEN tbl
  ELSE Append(tbl, [user_id |-> u, category |-> category, color |-> color])

save_custom_category(tbl, u, category, color) ==
  IF "custom_categories" \in store_down THEN tbl
  ELSE SelectSeq(tbl, LAMBDA r : ~(r.user_id = u /\ r.category = category))
         \o <<[user_id |-> u, category |-> category, color |-> color]>>

\* load_links: SELECT ... FROM links WHERE user_id = ? ORDER BY timestamp
load_links(tbl, u) ==
  IF "links" \in store_down THEN <<>>
  ELSE SelectSeq(tbl, LAMBDA r : r.user_id = u)

\* load_custom_categories: SELECT category, color FROM custom_categories
\* WHERE user_id = ? with no ORDER BY: the rows come in an order SQL leaves
\* open, so every order of the user's rows is a possible result.
load_custom_categories(tbl, u) ==
  LET rows == IF "custom_categories" \in store_down THEN <<>>
              ELSE SelectSeq(tbl, LAMBDA r : r.user_id = u)
      n == Len(rows)
      perms == {p \in [1..n -> 1..n] : \A i, j \in 1..n : p[i] = p[j] => i = j}
  IN {[i \in 1..n |-> <<rows[p[i]].category, rows[p[i]].color>>] : p \in perms}

\* ------------------------------------------------------------ buttons ---
AddPayload(url) == <<"add_category", "|">> \o url

AssignPayload(url, category, color) ==
  <<"assign", "|">> \o url \o <<"|">> \o category \o <<"|">> \o color

\* The categories a picker offers: the custom ones, then every default.
Offered(custom) == custom \o default_categories

\* callback_data of the buttons of a picker, in the order they are built
PickerButtons(url, custom) ==
  <<AddPayload(url)>>
    \o [i \in 1..Len(Offered(custom)) |->
          AssignPayload(url, Offered(custom)[i][1], Offered(custom)[i][2])]

\* len(callback_data.encode('utf-8')) > 64 for some assign button
TooLong(url, custom) ==
  \E i \in 1..Len(Offered(custom)) :
    StrLen(AssignPayload(url, Offered(custom)[i][1], Offered(custom)[i][2]))
      > CALLBACK_DATA_MAX

\* callback_data of the buttons of the colour picker
ColorButtons == [i \in 1..Len(colors) |-> <<"color", "|">> \o colors[i]]

Buttons(m) ==
  IF m.kind = "picker" THEN PickerButtons(m.url, m.custom) ELSE ColorButtons

\* message.delete()
DeleteMessage(ch, u, id) == [ch EXCEPT ![u] = {m \in @ : m.id # id}]

\* if 'last_url_message' in context.user_data: delete it and del the key
DropLastUrlMessage(ud, ch, u) ==
  IF ud[u].last_url_message # 0
  THEN [ud |-> [ud EXCEPT ![u].last_url_message = 0],
        ch |-> DeleteMessage(ch, u, ud[u].last_url_message)]
  ELSE [ud |-> ud, ch |-> ch]

\* The block that builds the picker and sends it: it returns before sending
\* when a callback_data is too long, else the sent message becomes
\* user_data['last_url_message'].
SendPicker(ud, ch, u, url, custom, id) ==
  IF TooLong(url, custom)
  THEN [ud |-> ud, ch |-> ch, reply |-> "too_long", offered |-> <<>>]
  ELSE [ud |-> [ud EXCEPT ![u].last_url_message = id],
        ch |-> [ch EXCEPT ![u] = @ \cup
                 {[id |-> id, kind |-> "picker", url |-> url, custom |-> custom]}],
        reply |-> "picker", offered |-> Offered(custom)]

\* ----------------------------------------------------------- handlers ---
\* handle_url: the first URL of the text is fetched unless the cache table has
\* it, saved as a link without category and colour, and the picker is sent.
\* handle_url after 'if shared_url not in user_cache': miss says whether the
\* page was fetched, html_content is what the fetch returned.
handle_url_rest(u, shared_url, miss, html_content) ==
       \E custom \in load_custom_categories(custom_categories, u) :
         LET p == SendPicker(user_data, chat, u, shared_url, custom, steps + 1)
         IN /\ cache' = IF miss THEN save_cache(cache, u, shared_url, html_content)
                        ELSE cache
            /\ links' = save_link(links, u, shared_url, None, None)
            /\ user_data' = p.ud
            /\ chat' = p.ch
            /\ last' = [user |-> u, event |-> "message", arg |-> None,
                        reply |-> p.reply, fetched |-> miss, url |-> shared_url,
                        offered |-> p.offered]
            /\ UNCHANGED custom_categories

\* handle_url that keeps a text without a URL as a link
handle_url_keeping_any_text(u, text) ==
  LET shared_url == FirstUrl(text) IN
  IF shared_url = None
  THEN /\ last' = [NoReply(u, "message") EXCEPT !.reply = "no_url"]
       /\ links' = save_link(links, u, text, None, None)
       /\ UNCHANGED <<user_data, chat, cache, custom_categories>>
  ELSE \E html_content \in FetchOutcomes :
         handle_url_rest(u, shared_url, shared_url \notin load_cache(cache, u),
                         html_content)

handle_url(u, text) ==
  LET shared_url == FirstUrl(text) IN
  IF shared_url = None
  THEN /\ last' = [NoReply(u, "message") EXCEPT !.reply = "no_url"]
       /\ UNCHANGED <<user_data, chat, cache, links, custom_categories>>
  ELSE \E html_content \in FetchOutcomes :
         handle_url_rest(u, shared_url, shared_url \notin load_cache(cache, u),
                         html_content)

\* The text is scanned for a URL whatever the mode.
handle_message_ignoring_mode(u, text) == handle_url(u, text)

\* handle_message: in category_add_mode the stripped text becomes
\* new_category and the colour picker is sent; otherwise handle_url.
handle_message(u, text) ==
  IF user_data[u].category_add_mode
  THEN /\ user_data' = [user_data EXCEPT ![u].new_category = strip(text),
                                         ![u].category_color_message = steps + 1,
                                         ![u].category_add_mode = FALSE]
       /\ chat' = [chat EXCEPT ![u] = @ \cup
                    {[id |-> steps + 1, kind |-> "colors", url |-> None,
                      custom |-> <<>>]}]
       /\ last' = [NoReply(u, "message") EXCEPT !.arg = text,
                                                !.reply = "color_picker"]
       /\ UNCHANGED <<cache, links, custom_categories>>
  ELSE handle_url(u, text)

\* category_add: the /categoryadd command
category_add(u) ==
  LET d == DropLastUrlMessage(user_data, chat, u) IN
  /\ user_data' = [d.ud EXCEPT ![u].category_add_mode = TRUE,
                               ![u].category_add_trigger = <<"command">>]
  /\ chat' = d.ch
  /\ last' = [NoReply(u, "categoryadd") EXCEPT !.reply = "prompt_name"]
  /\ UNCHANGED <<cache, links, custom_categories>>

\* handle_callback, data[0] == "add_category"
callback_add_category(u, data) ==
  LET d == DropLastUrlMessage(user_data, chat, u) IN
  /\ user_data' = [d.ud EXCEPT ![u].category_add_mode = TRUE,
                               ![u].category_add_trigger = <<"button">>,
                               ![u].current_url = data[2]]
  /\ chat' = d.ch
  /\ last' = [NoReply(u, "add_category") EXCEPT !.reply = "prompt_name",
                                                !.url = data[2]]
  /\ UNCHANGED <<cache, links, custom_categories>>

\* handle_callback, data[0] == "color"
callback_color(u, data) ==
  LET color == data[2]
      new_category == user_data[u].new_category
      shared_url == user_data[u].current_url
  IN
  IF Truthy(new_category) /\ Truthy(shared_url)
  THEN LET cats == save_custom_category(custom_categories, u, new_category, color)
           ud1 == [user_data EXCEPT ![u].category_color_message = 0]
           ch1 == IF user_data[u].category_color_message # 0
                  THEN DeleteMessage(chat, u, user_data[u].category_color_message)
                  ELSE chat
       IN \E custom \in load_custom_categories(cats, u) :
            LET p == SendPicker(ud1, ch1, u, shared_url, custom, steps + 1) IN
            /\ custom_categories' = cats
            /\ links' = save_link(links, u, shared_url, new_category, color)
            /\ user_data' = p.ud
            /\ chat' = p.ch
            /\ last' = [user |-> u, event |-> "color", arg |-> color,
                        reply |-> p.reply, fetched |-> FALSE, url |-> shared_url,
                        offered |-> p.offered]
            /\ UNCHANGED cache
  ELSE /\ last' = [NoReply(u, "color") EXCEPT !.arg = color]
       /\ UNCHANGED <<user_data, chat, cache, links, custom_categories>>

\* handle_callback, data[0] == "assign"
callback_assign(u, data) ==
  LET shared_url == data[2]
      category == data[3]
      color == data[4]
      d == DropLastUrlMessage(user_data, chat, u)
  IN \E custom \in load_custom_categories(custom_categories, u) :
       LET p == SendPicker(d.ud, d.ch, u, shared_url, custom, steps + 1) IN
       /\ links' = save_link(links, u, shared_url, category, color)
       /\ user_data' = p.ud
       /\ chat' = p.ch
       /\ last' = [user |-> u, event |-> "assign", arg |-> category,
                   reply |-> p.reply, fetched |-> FALSE, url |-> shared_url,
                   offered |-> p.offered]
       /\ UNCHANGED <<cache, custom_categories>>

\* handle_callback: query.data.split('|') selects the branch
handle_callback(u, callback_data) ==
  LET data == split(callback_data) IN
  CASE data[1] = <<"add_category">> -> callback_add_category(u, data)
    [] data[1] = <<"color">> -> callback_color(u, data)
    [] data[1] = <<"assign">> -> callback_assign(u, data)
    [] OTHER -> /\ last' = NoReply(u, "callback")
                /\ UNCHANGED <<user_data, chat, cache, links, custom_categories>>

\* ------------------------------------------------------ session state --
\* The state of the conversation, read off the keys of user_data: the flag
\* category_add_mode means a category name is expected; a name together with
\* a colour picker means a colour is expected; a picker means a category
\* choice is expected.
\* urllib.parse.quote(s, safe=''): every character other than a letter, a
\* digit and _ . - ~ becomes its percent escape.  "%H" is the quoted
\* "http://" (http%3A%2F%2F).
quote_char(c) ==
  CASE c = "H" -> "%H"
    [] c = "|" -> "%7C"
    [] c = " " -> "%20"
    [] OTHER -> c

quote(s) == [i \in 1..Len(s) |-> quote_char(s[i])]

\* One record of the upload string of view_cache
upload_record(link) ==
  link.url \o <<"|">>
    \o (IF Truthy(link.category) THEN link.category ELSE <<"Uncategorized">>)
    \o <<"|">>
    \o (IF Truthy(link.color) THEN link.color ELSE <<"gray">>)

RECURSIVE join3(_)
join3(upload_data) ==
  IF Len(upload_data) = 0 THEN <<>>
  ELSE IF Len(upload_data) = 1 THEN upload_data[1]
  ELSE upload_data[1] \o <<"|", "|", "|">> \o join3(Tail(upload_data))

upload_string(lk) == join3([i \in 1..Len(lk) |-> upload_record(lk[i])])

\* The /view_cache command: the reply carries the quoted upload string.
view_cache(u) ==
  LET lk == load_links(links, u) IN
  /\ last' = IF lk = <<>>
             THEN [NoReply(u, "view_cache") EXCEPT !.reply = "cache_empty"]
             ELSE [NoReply(u, "view_cache") EXCEPT
                     !.reply = "export", !.arg = quote(upload_string(lk))]
  /\ UNCHANGED <<user_data, chat, cache, links, custom_categories>>

SessionState(u) ==
  IF user_data[u].category_add_mode THEN "AwaitingNewCategoryName"
  ELSE IF user_data[u].new_category # None
          /\ user_data[u].category_color_message # 0 THEN "AwaitingColorChoice"
  ELSE IF user_data[u].last_url_message # 0 THEN "AwaitingCategoryChoice"
  ELSE "Idle"

\* Nothing of a flow is pending: no url, no category name, no name expected.
NothingPending(u) ==
  /\ ~user_data[u].category_add_mode
  /\ user_data[u].current_url = None
  /\ user_data[u].new_category = None

\* ------------------------------------------------------ specification ---
\* The pair a handled update wrote a link row for, recorded in requested.
Record ==
  requested' =
    IF last'.event \in {"message", "assign", "color"} /\ last'.url # None
    THEN requested \cup {<<last'.user, last'.url>>}
    ELSE requested

Restart(u) == scen' = [scen EXCEPT ![u] = NoScenario]

\* Updates taken up while a handler is still running
MayDispatch_concurrently == TRUE

\* The application is built without concurrent_updates: the next update is
\* taken up when the handler of the one before has returned.
MayDispatch == running = {}

\* One more update is handled.
Step ==
  /\ steps < MaxSteps
  /\ steps' = steps + 1

\* An update is taken up and its handler runs to its end.
Handle ==
  /\ MayDispatch
  /\ Step
  /\ UNCHANGED <<store_down, running>>

Sent(kind, text) == [NoInput EXCEPT !.kind = kind, !.text = text]

Pressed(m, i) ==
  IF m.kind = "colors" THEN [NoInput EXCEPT !.kind = "color", !.color = colors[i]]
  ELSE IF i = 1 THEN [NoInput EXCEPT !.kind = "button", !.url = m.url]
  ELSE [NoInput EXCEPT !.kind = "button", !.url = m.url,
                       !.category = Offered(m.custom)[i - 1][1],
                       !.color = Offered(m.custom)[i - 1][2]]

\* A text message that is not a command
Message(u) ==
  \E text \in TextsOf(u) :
    /\ Handle
    /\ handle_message(u, text)
    /\ input' = Sent("text", text)
    /\ Record
    /\ scen' =
         [scen EXCEPT ![u] =
            IF scen[u].stage = 2 /\ strip(text) # <<>>
            THEN [@ EXCEPT !.stage = 3, !.name = strip(text)]
            ELSE IF SessionState(u) = "Idle" /\ NothingPending(u)
                    /\ last'.reply = "picker"
            THEN [NoScenario EXCEPT !.stage = 1, !.url = FirstUrl(text)]
            ELSE NoScenario]

\* The /categoryadd command
CategoryAdd(u) ==
  /\ Handle
  /\ category_add(u)
  /\ input' = Sent("command", <<"/categoryadd">>)
  /\ Record
  /\ Restart(u)

\* The /view_cache command
ViewCache(u) ==
  /\ Handle
  /\ view_cache(u)
  /\ input' = Sent("command", <<"/view_cache">>)
  /\ UNCHANGED <<requested, scen>>

\* A press of a button of a picker that is still in the chat
PressPicker(u) ==
  \E m \in {x \in chat[u] : x.kind = "picker"} :
    \E i \in 1..Len(Buttons(m)) :
      /\ i > 1 + Len(m.custom) => Offered(m.custom)[i - 1][1] \in PressedDefaults
      /\ Handle
      /\ handle_callback(u, Buttons(m)[i])
      /\ input' = Pressed(m, i)
      /\ Record
      /\ scen' =
           [scen EXCEPT ![u] =
              IF scen[u].stage = 1 /\ i = 1 /\ m.url = scen[u].url
              THEN [@ EXCEPT !.stage = 2]
              ELSE NoScenario]

\* A press of a colour button of a colour picker that is still in the chat
PressColor(u) ==
  \E m \in {x \in chat[u] : x.kind = "colors"} :
    \E i \in 1..Len(Buttons(m)) :
      /\ colors[i] \in PressedColors
      /\ Handle
      /\ handle_callback(u, Buttons(m)[i])
      /\ input' = Pressed(m, i)
      /\ Record
      /\ scen' =
           [scen EXCEPT ![u] =
              IF scen[u].stage = 3
              THEN [@ EXCEPT !.stage = 4, !.color = colors[i]]
              ELSE NoScenario]

Next ==
  \E u \in Users :
    \/ Message(u)
    \/ CategoryAdd(u)
    \/ ViewCache(u)
    \/ PressPicker(u)
    \/ PressColor(u)

Spec == Init /\ [][Next]_vars

\* The state user 1 leaves behind after an add-category flow: 'http://a'
\* sent, '+' pressed, the name 'News' sent and the colour red pressed.  The
\* picker the colour press sent is in the chat; its id (-1) is one that no
\* later message gets.
InitAfterFlow ==
  /\ user_data =
       [u \in Users |->
          IF u = 1
          THEN [last_url_message |-> -1, category_color_message |-> 0,
                category_add_mode |-> FALSE,
                category_add_trigger |-> <<"button">>,
                current_url |-> <<"H", "a">>, new_category |-> <<"News">>]
          ELSE EmptyUserData]
  /\ chat =
       [u \in Users |->
          IF u = 1
          THEN {[id |-> -1, kind |-> "picker", url |-> <<"H", "a">>,
                 custom |-> << <<<<"News">>, <<"red">>>> >>]}
          ELSE {}]
  /\ cache = {[user_id |-> 1, url |-> <<"H", "a">>, html_content |-> "html"]}
  /\ links = <<[user_id |-> 1, url |-> <<"H", "a">>, category |-> <<"News">>,
                color |-> <<"red">>]>>
  /\ custom_categories =
       <<[user_id |-> 1, category |-> <<"News">>, color |-> <<"red">>]>>
  /\ last = [user |-> 1, event |-> "color", arg |-> <<"red">>,
             reply |-> "picker", fetched |-> FALSE, url |-> <<"H", "a">>,
             offered |-> Offered(<< <<<<"News">>, <<"red">>>> >>)]
  /\ steps = 0
  /\ requested = {<<1, <<"H", "a">>>>}
  /\ scen = [u \in Users |->
               IF u = 1
               THEN [stage |-> 4, url |-> <<"H", "a">>, name |-> <<"News">>,
                     color |-> <<"red">>]
               ELSE NoScenario]
  /\ input = [NoInput EXCEPT !.kind = "color", !.color = <<"red">>]
  /\ store_down = {}
  /\ running = {}

\* The user who goes on after the flow
FlowUsers == {1}

NextAfterFlow ==
  \E u \in FlowUsers :
    \/ Message(u)
    \/ CategoryAdd(u)
    \/ ViewCache(u)
    \/ PressPicker(u)
    \/ PressColor(u)

\* The bot from the end of a first add-category flow on
SpecAfterFlow == InitAfterFlow /\ [][NextAfterFlow]_vars

\* handle_url reaches 'await fetch_website_content(shared_url)': the url
\* is not in the user's cache, and the handler is suspended in the fetch.
BeginUrl(u) ==
  \E text \in TextsOf(u) :
    /\ MayDispatch
    /\ steps < MaxSteps
    /\ ~user_data[u].category_add_mode
    /\ FirstUrl(text) # None
    /\ FirstUrl(text) \notin load_cache(cache, u)
    /\ running' = running \cup {[user |-> u, text |-> text]}
    /\ UNCHANGED <<user_data, chat, cache, links, custom_categories, last,
                   steps, requested, scen, input, store_down>>

\* The fetch returns and the suspended handle_url runs to its end.
FinishUrl(u) ==
  \E r \in {x \in running : x.user = u} :
    \E html_content \in FetchOutcomes :
      /\ Step
      /\ running' = running \ {r}
      /\ handle_url_rest(u, FirstUrl(r.text), TRUE, html_content)
      /\ input' = [Sent("text", r.text) EXCEPT !.suspended = TRUE]
      /\ Record
      /\ scen' =
           [scen EXCEPT ![u] =
              IF SessionState(u) = "Idle" /\ NothingPending(u)
                 /\ last'.reply = "picker"
              THEN [NoScenario EXCEPT !.stage = 1, !.url = FirstUrl(r.text)]
              ELSE NoScenario]
      /\ UNCHANGED store_down

\* The user whose updates are followed while a fetch is outstanding
AwaitUsers == {1}

NextAwait ==
  \E u \in AwaitUsers :
    \/ BeginUrl(u)
    \/ FinishUrl(u)
    \/ Message(u)
    \/ CategoryAdd(u)
    \/ ViewCache(u)
    \/ PressPicker(u)
    \/ PressColor(u)

\* The bot with the fetch of handle_url as a step of its own
SpecAwait == Init /\ [][NextAwait]_vars

\* The tables that may be failing together: none, one of the two tables the
\* handlers write through save_link and save_custom_category, or the
\* database file as a whole (sqlite3.connect raises).
FaultSets == {{}, {"links"}, {"custom_categories"}, Tables}

\* Between two updates the statements of some tables start or stop raising.
StoreFault ==
  /\ MayDispatch
  /\ \E d \in FaultSets :
       /\ d # store_down
       /\ store_down' = d
  /\ UNCHANGED <<user_data, chat, cache, links, custom_categories, last,
                 steps, requested, scen, input, running>>

\* The user whose updates are followed while the database fails
StoreUsers == {1}

NextStore ==
  \/ \E u \in StoreUsers :
       \/ Message(u)
       \/ CategoryAdd(u)
       \/ ViewCache(u)
       \/ PressPicker(u)
       \/ PressColor(u)
  \/ StoreFault

\* The bot with a database whose statements may fail
SpecStore == Init /\ [][NextStore]_vars

\* ------------------------------------------------------------- claims ---
\* Positions of the rows of a links table with the key (u, url)
RowsOf(tbl, u, url) ==
  {i \in 1..Len(tbl) : tbl[i].user_id = u /\ tbl[i].url = url}

\* The update handled by this step is a text message of u.
MessageStep(u) ==
  steps' = steps + 1 /\ last'.event = "message" /\ last'.user = u

\* The URL the text message of this step contains, None when it has none.
SentUrl == IF last'.arg # None THEN FirstUrl(last'.arg) ELSE last'.url

\* C1: when u submits a URL whose link row holds a category and a colour,
\* the row holds the same category and colour afterwards.
C1_ResubmitKeepsCategory ==
  [][\A i \in 1..Len(links) :
       ( /\ MessageStep(links[i].user_id)
         /\ last'.url = links[i].url
         /\ links[i].category # None )
       => \E j \in RowsOf(links', links[i].user_id, links[i].url) :
            /\ links'[j].category = links[i].category
            /\ links'[j].color = links[i].color]_vars

\* C2: a text message is read as a category name exactly when the session
\* awaits a category name (category_add_mode is set): then the stripped text becomes new_category and
\* the text is not scanned for a URL (no link or cache row is written, the
\* colour picker is the reply); in every other state new_category is left as
\* it is and no colour picker is sent.
C2_TextIsNameIffNameExpected ==
  [][\A u \in Users :
       MessageStep(u) =>
         IF SessionState(u) = "AwaitingNewCategoryName"
         THEN /\ last'.reply = "color_picker"
              /\ user_data'[u].new_category = strip(last'.arg)
              /\ links' = links
              /\ cache' = cache
         ELSE /\ user_data'[u].new_category = user_data[u].new_category
              /\ last'.reply \in {"no_url", "too_long", "picker"}]_vars

\* C2 witness: a text with surrounding whitespace was read as a name.
C2_Witness ==
  /\ last.event = "message"
  /\ last.reply = "color_picker"
  /\ last.arg = <<" ", "N", " ">>
  /\ user_data[last.user].new_category = <<"N">>

\* C3: a message with a URL received while a category choice, a category
\* name or a colour is awaited drops the old flow (no category name and no
\* url of it stays pending) and is handled as a URL submission: the picker
\* for the new URL is sent and a category choice is awaited.  (A URL too
\* long for the buttons is left aside.)
C3_UrlAbandonsFlow ==
  [][\A u \in Users :
       ( /\ MessageStep(u)
         /\ SentUrl # None
         /\ last'.reply # "too_long"
         /\ SessionState(u) \in
              {"AwaitingCategoryChoice", "AwaitingNewCategoryName",
               "AwaitingColorChoice"} )
       => /\ last'.reply = "picker"
          /\ last'.url = SentUrl
          /\ user_data'[u].new_category = None
          /\ user_data'[u].current_url = None
          /\ ~user_data'[u].category_add_mode
          /\ \E m \in chat'[u] :
               m.id = user_data'[u].last_url_message /\ m.url = SentUrl]_vars

\* C4: after an 'assign' press, and after a 'color' press that saved the new
\* category, nothing is pending in the session of the user.
C4_IdleAfterAssignment ==
  (last.event = "assign" \/ (last.event = "color" /\ last.url # None))
    => NothingPending(last.user)

\* C5: while a category name is awaited, a text that is empty after strip
\* is rejected: the name is still awaited, no name is recorded and no colour
\* picker is sent.
C5_BlankNameRejected ==
  [][\A u \in Users :
       ( /\ MessageStep(u)
         /\ user_data[u].category_add_mode
         /\ strip(last'.arg) = <<>> )
       => /\ user_data'[u].category_add_mode
          /\ user_data'[u].new_category = user_data[u].new_category
          /\ last'.reply # "color_picker"]_vars

CustomOf(u) ==
  {<<custom_categories[i].category, custom_categories[i].color>> :
     i \in {j \in 1..Len(custom_categories) : custom_categories[j].user_id = u}}

DefaultNames == {default_categories[i][1] : i \in 1..Len(default_categories)}

\* C7: when a custom category of the user has the name of a default
\* category, the picker offers that name once, with the custom colour.
C7_CustomShadowsDefault ==
  last.reply = "picker" =>
    \A c \in CustomOf(last.user) :
      c[1] \in DefaultNames =>
        /\ Cardinality({i \in 1..Len(last.offered) : last.offered[i][1] = c[1]}) = 1
        /\ \A i \in 1..Len(last.offered) :
             last.offered[i][1] = c[1] => last.offered[i][2] = c[2]

\* C8: from Idle, url x, '+' press of the picker for x, name N, colour k go
\* through AwaitingCategoryChoice, AwaitingNewCategoryName and
\* AwaitingColorChoice and end with the custom category (N, k), the link row
\* (u, x) holding N and k, and the session Idle.
C8_AddCategoryScenario ==
  \A u \in Users :
    /\ scen[u].stage = 1 => SessionState(u) = "AwaitingCategoryChoice"
    /\ scen[u].stage = 2 => SessionState(u) = "AwaitingNewCategoryName"
    /\ scen[u].stage = 3 => SessionState(u) = "AwaitingColorChoice"
    /\ scen[u].stage = 4 =>
         /\ <<scen[u].name, scen[u].color>> \in CustomOf(u)
         /\ \E i \in RowsOf(links, u, scen[u].url) :
              /\ links[i].category = scen[u].name
              /\ links[i].color = scen[u].color
         /\ SessionState(u) = "Idle"
         /\ NothingPending(u)

\* C9: a 'color' press that follows a non-empty name adds the category with
\* the pressed colour to the custom categories of the user and is answered,
\* whether the flow was started by the '+' button or by /categoryadd.
C9_FlowSavesCategory ==
  [][\A u \in Users :
       ( /\ steps' = steps + 1
         /\ last'.event = "color"
         /\ last'.user = u
         /\ SessionState(u) = "AwaitingColorChoice"
         /\ Truthy(user_data[u].new_category) )
       => /\ \E i \in 1..Len(custom_categories') :
               /\ custom_categories'[i].user_id = u
               /\ custom_categories'[i].category = user_data[u].new_category
               /\ custom_categories'[i].color = last'.arg
          /\ last'.reply # "none"]_vars

\* C10: a new flow discards the session of the old one: after /categoryadd
\* no url and no category name is pending, after a '+' press no category
\* name is pending, and the 'color' press of a flow started by /categoryadd
\* writes no link row.
C10_NewFlowDiscardsOld ==
  [][\A u \in Users :
       /\ (steps' = steps + 1 /\ last'.event = "categoryadd" /\ last'.user = u)
            => /\ user_data'[u].current_url = None
               /\ user_data'[u].new_category = None
       /\ (steps' = steps + 1 /\ last'.event = "add_category" /\ last'.user = u)
            => user_data'[u].new_category = None
       /\ ( /\ steps' = steps + 1
            /\ last'.event = "color"
            /\ last'.user = u
            /\ user_data[u].category_add_trigger = <<"command">> )
            => links' = links]_vars

\* The rows of a table that belong to user v
RowsOfUser(tbl, v) == SelectSeq(tbl, LAMBDA r : r.user_id = v)

\* C11: an update handled for user u (a text or URL message, a button
\* press, /categoryadd, /view_cache) leaves the link rows, the custom
\* categories, the cached pages, the session and the chat of every other
\* user as they were.
C11_OtherUsersUntouched ==
  [][\A u \in Users :
       (steps' = steps + 1 /\ last'.user = u) =>
         \A v \in Users \ {u} :
           /\ RowsOfUser(links', v) = RowsOfUser(links, v)
           /\ RowsOfUser(custom_categories', v)
                = RowsOfUser(custom_categories, v)
           /\ {r \in cache' : r.user_id = v} = {r \in cache : r.user_id = v}
           /\ user_data'[v] = user_data[v]
           /\ chat'[v] = chat[v]]_vars

\* C11 witness: both users submitted the same URL and each assigned it a
\* category of their own; each row holds its user's choice.
C11_Witness ==
  /\ \E i \in 1..Len(links) :
       /\ links[i].user_id = 1 /\ links[i].url = <<"H", "a">>
       /\ links[i].category = <<"News">>
  /\ \E j \in 1..Len(links) :
       /\ links[j].user_id = 2 /\ links[j].url = <<"H", "a">>
       /\ links[j].category = <<"Sport">>
  /\ last.event = "assign"

\* The cache rows of the page (u, url)
CachedPage(u, url) == {r \in cache : r.user_id = u /\ r.url = url}

\* C13: when u submits a URL, the page is fetched exactly when the cache
\* holds no record of it for u or the cached content is an error marker.
C13_FetchIffMissOrError ==
  [][\A u \in Users :
       (MessageStep(u) /\ last'.url # None) =>
         (last'.fetched <=>
            \/ CachedPage(u, last'.url) = {}
            \/ \E r \in CachedPage(u, last'.url) : r.html_content = "Error")]_vars

\* C15: every stored custom category has a name that is not empty and has
\* no whitespace at its start or end.
C15_CustomNamesTrimmed ==
  \A i \in 1..Len(custom_categories) :
    LET name == custom_categories[i].category IN
      /\ Len(name) > 0
      /\ ~IsSpace(name[1])
      /\ ~IsSpace(name[Len(name)])

\* C15 witness: the name sent as ' N ' was stored as 'N'.
C15_Witness ==
  /\ last.event = "color"
  /\ last.url # None
  /\ \E i \in 1..Len(custom_categories) :
       custom_categories[i].category = <<"N">>

\* C19: a text message without a URL received in Idle is answered with the
\* no-URL error and changes nothing: session, chat, links, cached pages and
\* custom categories are as before.
C19_NoUrlChangesNothing ==
  [][\A u \in Users :
       ( /\ MessageStep(u)
         /\ input'.kind = "text"
         /\ FirstUrl(input'.text) = None
         /\ SessionState(u) = "Idle" )
       => /\ last'.reply = "no_url"
          /\ user_data' = user_data
          /\ chat' = chat
          /\ links' = links
          /\ cache' = cache
          /\ custom_categories' = custom_categories]_vars

\* C19 witness: a text without a URL was answered with the error in Idle.
C19_Witness ==
  /\ input.kind = "text"
  /\ input.text = <<"News">>
  /\ last.reply = "no_url"
  /\ SessionState(last.user) = "Idle"
  /\ cache # {}

\* C20: pressing a category button of a picker writes the link row of the
\* URL the picker was sent for, with the category and the colour the button
\* shows.
C20_AssignPayloadRoundTrips ==
  [][\A u \in Users :
       ( /\ steps' = steps + 1
         /\ last'.user = u
         /\ input'.kind = "button"
         /\ input'.category # None )
       => \E i \in 1..Len(links') :
            links'[i] = [user_id |-> u, url |-> input'.url,
                         category |-> input'.category,
                         color |-> input'.color]]_vars

\* Percent-decoding, the inverse of quote
unquote_char(c) ==
  CASE c = "%H" -> "H"
    [] c = "%7C" -> "|"
    [] c = "%20" -> " "
    [] OTHER -> c

unquote(s) == [i \in 1..Len(s) |-> unquote_char(s[i])]

\* The pieces of s between the separators '|||'
RECURSIVE split3(_)
split3(s) ==
  LET seps == {i \in 1..(Len(s) - 2) :
                 s[i] = "|" /\ s[i + 1] = "|" /\ s[i + 2] = "|"} IN
  IF seps = {} THEN <<s>>
  ELSE LET i == CHOOSE j \in seps : \A k \in seps : j <= k
       IN <<SubSeq(s, 1, i - 1)>> \o split3(SubSeq(s, i + 3, Len(s)))

\* A payload read as the claim reads it: records at '|||', fields at '|',
\* then every field percent-decoded.
DecodeFields(payload) ==
  LET recs == split3(payload) IN
  [i \in 1..Len(recs) |->
     LET f == split(recs[i]) IN [j \in 1..Len(f) |-> unquote(f[j])]]

\* A payload percent-decoded as a whole first, then split the same way
DecodeWhole(payload) ==
  LET recs == split3(unquote(payload)) IN
  [i \in 1..Len(recs) |-> split(recs[i])]

\* The records (url, category, color) of a user's link rows, an absent
\* category exported as Uncategorized and an absent colour as gray.
Exported(lk) ==
  [i \in 1..Len(lk) |->
     <<lk[i].url,
       IF lk[i].category = None THEN <<"Uncategorized">> ELSE lk[i].category,
       IF lk[i].color = None THEN <<"gray">> ELSE lk[i].color>>]

\* C18: the payload /view_cache replies with decodes to the user's stored
\* (url, category, color) records in order, whether it is split into
\* records and fields before percent-decoding (as the fields would be if
\* each were encoded on its own) or after.
C18_ExportRoundTrips ==
  last.reply = "export" =>
    \/ DecodeFields(last.arg) = Exported(RowsOfUser(links, last.user))
    \/ DecodeWhole(last.arg) = Exported(RowsOfUser(links, last.user))

\* C12: a handler whose write fails does not go on as if it had succeeded:
\* a colour press whose custom category write failed writes no link row,
\* and a URL submission or a category press whose link write failed does not
\* answer with the picker.
C12_StoreErrorAborts ==
  [][\A u \in Users :
       (steps' = steps + 1 /\ last'.user = u) =>
         /\ ( /\ last'.event = "color"
              /\ last'.url # None
              /\ "custom_categories" \in store_down )
            => RowsOfUser(links', u) = RowsOfUser(links, u)
         /\ ( /\ last'.event \in {"message", "assign", "color"}
              /\ last'.url # None
              /\ "links" \in store_down )
            => last'.reply # "picker"]_vars

\* Positions of the custom category rows of user u named name
CustomRows(tbl, u, name) ==
  {i \in 1..Len(tbl) : tbl[i].user_id = u /\ tbl[i].category = name}

\* C16: a user's custom categories hold at most one row per name, and after
\* a colour press that saves a category the one row of that name has the
\* colour pressed; every other row is as before.
C16_OneCustomPerName ==
  [][\A u \in Users :
       /\ \A i, j \in 1..Len(custom_categories') :
            ( /\ custom_categories'[i].user_id = custom_categories'[j].user_id
              /\ custom_categories'[i].category
                   = custom_categories'[j].category ) => i = j
       /\ ( /\ steps' = steps + 1
            /\ last'.user = u
            /\ last'.event = "color"
            /\ last'.url # None )
          => LET name == user_data[u].new_category IN
             /\ \E i \in CustomRows(custom_categories', u, name) :
                  custom_categories'[i].color = last'.arg
             /\ \A k \in 1..Len(custom_categories) :
                  ~(custom_categories[k].user_id = u
                      /\ custom_categories[k].category = name)
                  => \E i \in 1..Len(custom_categories') :
                       custom_categories'[i] = custom_categories[k]]_vars

\* C16 witness: the category News, created red, was created again gray and
\* is the only custom category.
C16_Witness ==
  /\ last.event = "color"
  /\ last.url # None
  /\ last.arg = <<"gray">>
  /\ custom_categories =
       <<[user_id |-> 1, category |-> <<"News">>, color |-> <<"gray">>]>>

\* The custom categories of u as (name, colour) pairs, in the order they
\* were inserted or last modified, the oldest first
CustomOldestFirst(u) ==
  LET rows == RowsOfUser(custom_categories, u) IN
  [i \in 1..Len(rows) |-> <<rows[i].category, rows[i].color>>]

\* C17: a picker lists the user's custom categories, the oldest first, and
\* then the default categories; without custom categories it lists exactly
\* the defaults.
C17_PickerOrder ==
  last.reply = "picker" =>
    last.offered = CustomOldestFirst(last.user) \o default_categories

\* C14: while a URL submission of user u is suspended in its fetch, no
\* update of u is handled and nothing of u changes: session, chat, link
\* rows, custom categories and cached pages are the same until the suspended
\* handler goes on.
C14_NoInterleaving ==
  [][\A r \in running :
       r \in running' =>
         /\ ~(steps' = steps + 1 /\ last'.user = r.user)
         /\ user_data'[r.user] = user_data[r.user]
         /\ chat'[r.user] = chat[r.user]
         /\ RowsOfUser(links', r.user) = RowsOfUser(links, r.user)
         /\ RowsOfUser(custom_categories', r.user)
              = RowsOfUser(custom_categories, r.user)
         /\ {x \in cache' : x.user_id = r.user}
              = {x \in cache : x.user_id = r.user}]_vars

\* C14 witness: a URL submission that was suspended in its fetch has
\* finished, after an earlier update of the same user.
C14_Witness ==
  /\ input.suspended
  /\ last.user = 1
  /\ last.fetched
  /\ last.reply = "picker"
  /\ steps = 2
  /\ running = {}

\* C21: the category of every link row is absent, the name of a default
\* category, or the name of a custom category stored for the row's user.
C21_LinkCategoryExists ==
  \A i \in 1..Len(links) :
    \/ links[i].category = None
    \/ links[i].category \in DefaultNames
    \/ CustomRows(custom_categories, links[i].user_id, links[i].category) # {}

\* A string without the separator of the button payloads
NoPipe(str) == \A k \in 1..Len(str) : str[k] # "|"

\* Without a pipe in any submitted URL or custom category name, every link
\* category exists.
C21_ExistsWithoutPipes ==
  ( /\ \A p \in requested : NoPipe(p[2])
    /\ \A i \in 1..Len(custom_categories) :
         NoPipe(custom_categories[i].category) )
  => C21_LinkCategoryExists

====
